---- MODULE Spec2Model ----
(***************************************************************************)
(* PIConGPU: the plane-wave laser profile (laserPlaneWave.hpp) and the     *)
(* MomentumComponent derived attribute with its SpeciesEligibleForSolver   *)
(* trait.                                                                  *)
(*                                                                         *)
(* Floating-point values are modelled as follows.                          *)
(*  - Times are integers counting HALF time units, so that                 *)
(*    mue = 0.5 * RAMP_INIT * PULSE_LENGTH is exact.                       *)
(*  - The integration correction factor is a rational <<num, den>>.        *)
(*  - exp, sin and cos are uninterpreted: the envelope and the field       *)
(*    components are symbolic terms that record the operands the code      *)
(*    passes to them.                                                      *)
(***************************************************************************)
EXTENDS Integers, Sequences, FiniteSets

(* ----------------------------- bounds ---------------------------------- *)
MaxStep == 2
MaxPhase == 1
MaxDeltaT == 2
MaxPulseLength == 2
MaxPos == 1
MaxMomentum == 1

(* ------------------------- program constants --------------------------- *)
LINEAR_X == "LINEAR_X"
LINEAR_Z == "LINEAR_Z"
CIRCULAR == "CIRCULAR"
PolarisationType == {LINEAR_X, LINEAR_Z, CIRCULAR}

VARIABLES
    cfg,          \* the laser configuration (compile-time constants of the run)
    phase,        \* the caller's phase variable, passed by reference
    currentStep,  \* argument of the last laserLongitudinal call
    ret,          \* what the last laserLongitudinal call computed
    arg,          \* the phase passed to the last call; was its step called before
    seen,         \* per step, every (elong, phase) output observed so far
    trans,        \* argument and result of the last laserTransversal call
    species,      \* identifiers stored in T_Species::FrameType
    T_direction,  \* template parameter of MomentumComponent
    eligible,     \* result of the last SpeciesEligibleForSolver evaluation
    attribute,    \* result of the last MomentumComponent::operator()
    unitDimension \* result of the last getUnitDimension call

laserVars == <<cfg, phase, currentStep, ret, arg, seen, trans>>
attrVars == <<species, T_direction, eligible, attribute, unitDimension>>
vars == <<cfg, phase, currentStep, ret, arg, seen, trans,
          species, T_direction, eligible, attribute, unitDimension>>

(* ------------------------ laser configuration -------------------------- *)
\* LASER_NOFOCUS_CONSTANT values tried: an ill-configured negative plateau,
\* no plateau, and a plateau of two time units.
NoFocusValues == {-2, 0, 2}

\* RAMP_INIT values tried
RampInitValues == {1, 2}

Configs ==
    [DELTA_T : 1..MaxDeltaT,
     RAMP_INIT : RampInitValues,
     PULSE_LENGTH : 1..MaxPulseLength,
     LASER_NOFOCUS_CONSTANT : NoFocusValues,
     LASER_PHASE : {0, 1},
     AMPLITUDE : {1},
     Polarisation : PolarisationType]

DELTA_T == cfg.DELTA_T
RAMP_INIT == cfg.RAMP_INIT
PULSE_LENGTH == cfg.PULSE_LENGTH
LASER_NOFOCUS_CONSTANT == cfg.LASER_NOFOCUS_CONSTANT
LASER_PHASE == cfg.LASER_PHASE
AMPLITUDE == cfg.AMPLITUDE
Polarisation == cfg.Polarisation

(* --------------------------- laserLongitudinal ------------------------- *)
\* const double runTime = DELTA_T*currentStep;   (in half time units)
runTime(step) == 2 * (DELTA_T * step)

\* const double mue = 0.5 * RAMP_INIT * PULSE_LENGTH;   (in half time units)
mue == RAMP_INIT * PULSE_LENGTH

endUpramp == mue

startDownramp_noPlateau == mue

startDownramp == mue + 2 * LASER_NOFOCUS_CONSTANT

\* the branch of the if / else-if taken (no branch: the plateau)
branch_swapped(step) ==
    IF runTime(step) < startDownramp THEN "downramp"
    ELSE IF runTime(step) > endUpramp THEN "upramp"
    ELSE "plateau"

branch(step) ==
    IF runTime(step) > startDownramp THEN "downramp"
    ELSE IF runTime(step) < endUpramp THEN "upramp"
    ELSE "plateau"

\* exp( -0.5 * exponent * exponent ) with
\* exponent = offset / PULSE_LENGTH / sqrt( 2.0 ); offset in half time units
GaussFactor(offset) == [offset |-> offset, pulseLength |-> PULSE_LENGTH]

\* double envelope = double(AMPLITUDE); envelope *= exp(...) in the ramps
envelope(step) ==
    LET b == branch(step)
    IN  [amplitude |-> AMPLITUDE,
         factors |->
            IF b = "downramp" THEN <<GaussFactor(runTime(step) - startDownramp)>>
            ELSE IF b = "upramp" THEN <<GaussFactor(runTime(step) - endUpramp)>>
            ELSE <<>>]

\* ( runTime - x ) / (2.0*PULSE_LENGTH*PULSE_LENGTH) as <<num, den>>; the
\* numerator is in half time units, hence the denominator 4*PULSE_LENGTH^2.
integrationCorrectionFactor_copyPaste(step) ==
    LET b == branch(step)
    IN  IF b = "downramp"
        THEN <<runTime(step) - startDownramp, 4 * PULSE_LENGTH * PULSE_LENGTH>>
        ELSE IF b = "upramp"
        THEN <<runTime(step) - startDownramp, 4 * PULSE_LENGTH * PULSE_LENGTH>>
        ELSE <<0, 1>>

integrationCorrectionFactor(step) ==
    LET b == branch(step)
    IN  IF b = "downramp"
        THEN <<runTime(step) - startDownramp, 4 * PULSE_LENGTH * PULSE_LENGTH>>
        ELSE IF b = "upramp"
        THEN <<runTime(step) - endUpramp, 4 * PULSE_LENGTH * PULSE_LENGTH>>
        ELSE <<0, 1>>

timeOszi(step) == runTime(step) - endUpramp

\* t_and_phase = w * timeOszi + LASER_PHASE, with w = 2 PI c / WAVE_LENGTH
\* kept symbolic: the term records timeOszi and the phase offset added.
t_and_phase(step, phaseOffset) ==
    [timeOszi |-> timeOszi(step), phaseOffset |-> phaseOffset]

\* float3_X::create(0.0) component
Zero == [form |-> "zero", prec |-> "float_X"]

\* float_X( env [/ sqrt(2.0)] * (f(th) +/- g(th) * ic) ): the double term
\* narrowed to the working precision
Osc(form, env, overSqrt2, th, ic) ==
    [form |-> form, prec |-> "float_X", envelope |-> env,
     overSqrt2 |-> overSqrt2, theta |-> th, ic |-> ic]

\* the polarisation dispatch writing the components of elong
Assemble_writesY(pol, env, th, ic) ==
    IF pol = LINEAR_X
    THEN <<Osc("sin+cos*ic", env, FALSE, th, ic), Zero, Zero>>
    ELSE IF pol = LINEAR_Z
    THEN <<Zero, Osc("sin+cos*ic", env, FALSE, th, ic), Zero>>
    ELSE IF pol = CIRCULAR
    THEN <<Osc("sin+cos*ic", env, TRUE, th, ic), Zero,
           Osc("cos-sin*ic", env, TRUE, th, ic)>>
    ELSE <<Zero, Zero, Zero>>

Assemble(pol, env, th, ic) ==
    IF pol = LINEAR_X
    THEN <<Osc("sin+cos*ic", env, FALSE, th, ic), Zero, Zero>>
    ELSE IF pol = LINEAR_Z
    THEN <<Zero, Zero, Osc("sin+cos*ic", env, FALSE, th, ic)>>
    ELSE IF pol = CIRCULAR
    THEN <<Osc("sin+cos*ic", env, TRUE, th, ic), Zero,
           Osc("cos-sin*ic", env, TRUE, th, ic)>>
    ELSE <<Zero, Zero, Zero>>

\* the call: returns elong and the value left in the reference parameter;
\* envelope, integrationCorrectionFactor and branch expose the locals.
LongitudinalResult(step, phaseOffset, phaseOut) ==
    [called |-> TRUE,
     elong |-> Assemble(Polarisation, envelope(step),
                        t_and_phase(step, phaseOffset),
                        integrationCorrectionFactor(step)),
     phase |-> phaseOut,
     envelope |-> envelope(step),
     integrationCorrectionFactor |-> integrationCorrectionFactor(step),
     branch |-> branch(step)]

laserLongitudinal_keepsPhase(step, phaseIn) ==
    LongitudinalResult(step, LASER_PHASE, phaseIn)

laserLongitudinal_readsPhase(step, phaseIn) ==
    LongitudinalResult(step, LASER_PHASE + phaseIn, 0)

\* phase = float_X(0.0); return elong;
laserLongitudinal(step, phaseIn) ==
    LongitudinalResult(step, LASER_PHASE, 0)

(* --------------------------- laserTransversal -------------------------- *)
laserTransversal_shaped(elong, a, b, c) ==
    IF b = 0 THEN elong ELSE <<elong[1], Zero, Zero>>

laserTransversal(elong, a, b, c) == elong

(* ---------------------------- laser actions ---------------------------- *)
Steps == 0..MaxStep
PhaseValues == 0..MaxPhase
Positions == 0..MaxPos

NoCall ==
    [called |-> FALSE, elong |-> <<Zero, Zero, Zero>>,
     phase |-> 0, envelope |-> [amplitude |-> 0, factors |-> <<>>],
     integrationCorrectionFactor |-> <<0, 1>>, branch |-> "none"]

\* before the first call: no argument was passed yet
NoArg == [phaseIn |-> 0, again |-> FALSE]

NoTrans == [called |-> FALSE, in |-> <<Zero, Zero, Zero>>, args |-> <<0, 0, 0>>,
            out |-> <<Zero, Zero, Zero>>]

InitLaser ==
    /\ cfg \in Configs
    /\ phase \in PhaseValues
    /\ currentStep = 0
    /\ ret = NoCall
    /\ arg = NoArg
    /\ seen = [s \in Steps |-> {}]
    /\ trans = NoTrans

\* the caller's phase variable holds an arbitrary value before a call
SetPhase(v) ==
    /\ phase' = v
    /\ UNCHANGED <<cfg, currentStep, ret, arg, seen, trans>>
    /\ UNCHANGED attrVars

\* the boundary code calls the generator for a time step; the reference
\* parameter writes the caller's phase variable
CallLongitudinal(step) ==
    LET r == laserLongitudinal(step, phase)
    IN  /\ currentStep' = step
        /\ ret' = r
        /\ phase' = r.phase
        /\ arg' = [phaseIn |-> phase, again |-> seen[step] # {}]
        /\ seen' = [seen EXCEPT ![step] =
                       @ \cup {[elong |-> r.elong, phase |-> r.phase]}]
        /\ UNCHANGED <<cfg, trans>>
        /\ UNCHANGED attrVars

NextLaser ==
    \/ \E v \in PhaseValues : SetPhase(v)
    \/ \E step \in Steps : CallLongitudinal(step)

\* field vectors handed to laserTransversal: every combination of the
\* components laserLongitudinal produces
Components ==
    {Zero} \cup
    {Assemble(pol, envelope(s), t_and_phase(s, LASER_PHASE),
              integrationCorrectionFactor(s))[i] :
        pol \in PolarisationType, s \in Steps, i \in {1, 3}}

FieldVectors == {<<x, y, z>> : x \in Components, y \in Components, z \in Components}

\* the boundary code holds a field vector and the coordinates of a
\* boundary point, and passes them through laserTransversal
CallTransversal ==
    /\ ~trans.called
    /\ trans' = [trans EXCEPT
                   !.called = TRUE,
                   !.out = laserTransversal(trans.in, trans.args[1],
                                            trans.args[2], trans.args[3])]
    /\ UNCHANGED <<cfg, phase, currentStep, ret, arg, seen>>
    /\ UNCHANGED attrVars

NextTransversal == CallTransversal

(* ------------------- MomentumComponent< T_direction > ------------------ *)
\* identifiers a species' frame may store
Identifiers == {"position", "momentum", "weighting", "particleId"}

\* PMACC_CASSERT_MSG: T_direction >= 0 and T_direction < 3
Directions == {d \in 0..3 : d >= 0 /\ d < 3}

\* std::vector<float_64> unitDimension( 7, 0.0 )
getUnitDimension_ofMomentum ==
    [i \in 1..7 |-> IF i \in {1, 2} THEN 1 ELSE IF i = 3 THEN -1 ELSE 0]

getUnitDimension == [i \in 1..7 |-> 0]

\* MomentumComponent::operator(): p[d] / |p| for |p| > 0, else 0.  The
\* ratio is the term <<num, normSq>> standing for num / sqrt(normSq); the
\* literal 0 is <<0, 1>>.
NormSq(p) == p[1] * p[1] + p[2] * p[2] + p[3] * p[3]

MomentumRatio_noGuard(p, d) == <<p[d + 1], NormSq(p)>>

MomentumRatio(p, d) ==
    IF NormSq(p) > 0 THEN <<p[d + 1], NormSq(p)>> ELSE <<0, 1>>

(* ---------------------- SpeciesEligibleForSolver ----------------------- *)
\* using FrameType = typename T_Species::FrameType
FrameType == species

RequiredIdentifiers_momentumOnly == <<"momentum">>

\* MakeSeq_t< position<>, momentum >
RequiredIdentifiers == <<"position", "momentum">>

\* pmacc::traits::HasIdentifiers: every identifier of the sequence is one
\* of the frame's identifiers
RECURSIVE HasIdentifiers(_, _)
HasIdentifiers(frame, ids) ==
    IF ids = <<>> THEN TRUE
    ELSE Head(ids) \in frame /\ HasIdentifiers(frame, Tail(ids))

\* SpeciesEligibleForSolver< T_Species, MomentumComponent< T_direction > >::type
SpeciesEligibleForSolver == HasIdentifiers(FrameType, RequiredIdentifiers)

(* -------------------------- attribute actions -------------------------- *)
Momenta ==
    {<<x, y, z>> : x \in -MaxMomentum..MaxMomentum,
                   y \in -MaxMomentum..MaxMomentum,
                   z \in -MaxMomentum..MaxMomentum}

NoAttribute == [called |-> FALSE, momentum |-> <<0, 0, 0>>, value |-> <<0, 1>>]

InitAttr ==
    /\ species \in SUBSET Identifiers
    /\ T_direction \in Directions
    /\ eligible = [evaluated |-> FALSE, type |-> FALSE]
    /\ attribute = NoAttribute
    /\ unitDimension = <<>>

\* the trait is instantiated for the species and the solver
CheckEligibility ==
    /\ eligible' = [evaluated |-> TRUE, type |-> SpeciesEligibleForSolver]
    /\ UNCHANGED <<species, T_direction, attribute, unitDimension>>
    /\ UNCHANGED laserVars

\* the functor runs on a particle of an eligible species only
Evaluate(p) ==
    /\ SpeciesEligibleForSolver
    /\ attribute' = [called |-> TRUE, momentum |-> p,
                     value |-> MomentumRatio(p, T_direction)]
    /\ UNCHANGED <<species, T_direction, eligible, unitDimension>>
    /\ UNCHANGED laserVars

CallGetUnitDimension ==
    /\ unitDimension' = getUnitDimension
    /\ UNCHANGED <<species, T_direction, eligible, attribute>>
    /\ UNCHANGED laserVars

NextAttr ==
    \/ CheckEligibility
    \/ \E p \in Momenta : Evaluate(p)
    \/ CallGetUnitDimension

(* --------------------------- specifications ---------------------------- *)
\* the laser generator, for a species fixed at build time
Init ==
    /\ InitLaser
    /\ species = Identifiers
    /\ T_direction = 0
    /\ eligible = [evaluated |-> FALSE, type |-> FALSE]
    /\ attribute = NoAttribute
    /\ unitDimension = <<>>

Next == NextLaser

Spec == Init /\ [][Next]_vars

\* the derived attribute, for a laser configuration fixed at build time
DefaultConfig ==
    [DELTA_T |-> 1, RAMP_INIT |-> 1, PULSE_LENGTH |-> 1,
     LASER_NOFOCUS_CONSTANT |-> 0, LASER_PHASE |-> 0, AMPLITUDE |-> 1,
     Polarisation |-> LINEAR_X]

InitAttrSpec ==
    /\ InitAttr
    /\ cfg = DefaultConfig
    /\ phase = 0
    /\ currentStep = 0
    /\ ret = NoCall
    /\ arg = NoArg
    /\ seen = [s \in Steps |-> {}]
    /\ trans = NoTrans

SpecAttr == InitAttrSpec /\ [][NextAttr]_vars

\* the transverse pass-through, for the same fixed configuration
InitTransversal ==
    /\ cfg = DefaultConfig
    /\ phase = 0
    /\ currentStep = 0
    /\ ret = NoCall
    /\ arg = NoArg
    /\ seen = [s \in Steps |-> {}]
    /\ trans \in [called : {FALSE}, in : FieldVectors,
                  args : Positions \X Positions \X Positions,
                  out : {<<Zero, Zero, Zero>>}]
    /\ species = Identifiers
    /\ T_direction = 0
    /\ eligible = [evaluated |-> FALSE, type |-> FALSE]
    /\ attribute = NoAttribute
    /\ unitDimension = <<>>

SpecTransversal == InitTransversal /\ [][NextTransversal]_vars

(* ------------------------------- claims -------------------------------- *)
\* time of the last laserLongitudinal call, in half time units
T == 2 * (DELTA_T * currentStep)

\* the envelope and the correction factor are those of a Gaussian ramp
\* centred at time `centre`: A * exp(-0.5*((T - centre)/(PULSE_LENGTH*sqrt2))^2)
\* and (T - centre) / (2 * PULSE_LENGTH^2)
RampAround(centre) ==
    /\ ret.envelope.amplitude = AMPLITUDE
    /\ ret.envelope.factors =
          <<[offset |-> T - centre, pulseLength |-> PULSE_LENGTH]>>
    /\ ret.integrationCorrectionFactor[1] * (4 * PULSE_LENGTH * PULSE_LENGTH)
          = (T - centre) * ret.integrationCorrectionFactor[2]

\* C1 as stated: for every configuration, t < endUpramp gives the Upramp
\* regime (offset t - endUpramp) and t > startDownramp gives the Downramp
\* regime (offset t - startDownramp).
C1_AsStated ==
    ret.called =>
        /\ (T < RAMP_INIT * PULSE_LENGTH => RampAround(RAMP_INIT * PULSE_LENGTH))
        /\ (T > RAMP_INIT * PULSE_LENGTH + 2 * LASER_NOFOCUS_CONSTANT =>
               RampAround(RAMP_INIT * PULSE_LENGTH + 2 * LASER_NOFOCUS_CONSTANT))

\* C1 amended: t > startDownramp gives the Downramp regime (offset
\* t - startDownramp); t < endUpramp gives the Upramp regime (offset
\* t - endUpramp) unless t > startDownramp also holds, in which case the
\* Downramp test, made first, wins.
C1_DownrampFirst ==
    ret.called =>
        /\ (T < RAMP_INIT * PULSE_LENGTH
              /\ ~(T > RAMP_INIT * PULSE_LENGTH + 2 * LASER_NOFOCUS_CONSTANT)
              => RampAround(RAMP_INIT * PULSE_LENGTH))
        /\ (T > RAMP_INIT * PULSE_LENGTH + 2 * LASER_NOFOCUS_CONSTANT =>
               RampAround(RAMP_INIT * PULSE_LENGTH + 2 * LASER_NOFOCUS_CONSTANT))

C1_Witness ==
    /\ ret.called
    /\ T < RAMP_INIT * PULSE_LENGTH
    /\ LASER_NOFOCUS_CONSTANT > 0
    /\ ret.integrationCorrectionFactor[1] < 0

\* C2: for endUpramp <= t <= startDownramp, both ends included, the Plateau
\* branch applies: the envelope is AMPLITUDE unchanged and the correction
\* factor is exactly 0.
C2_PlateauInclusive ==
    (/\ ret.called
     /\ RAMP_INIT * PULSE_LENGTH <= T
     /\ T <= RAMP_INIT * PULSE_LENGTH + 2 * LASER_NOFOCUS_CONSTANT)
    => /\ ret.branch = "plateau"
       /\ ret.envelope = [amplitude |-> AMPLITUDE, factors |-> <<>>]
       /\ ret.integrationCorrectionFactor[1] = 0

C2_Witness ==
    /\ ret.called
    /\ LASER_NOFOCUS_CONSTANT > 0
    /\ T = RAMP_INIT * PULSE_LENGTH + 2 * LASER_NOFOCUS_CONSTANT
    /\ ret.branch = "plateau"

\* C3: the components of the returned vector are assigned by polarisation
\* only: LINEAR_X writes x, LINEAR_Z writes z with the same formula,
\* CIRCULAR writes x = (A/sqrt2)(sin th + cos th * ic) and
\* z = (A/sqrt2)(cos th - sin th * ic); y is 0 in every mode and regime;
\* th = w * (t - endUpramp) + LASER_PHASE.
C3_PolarisationAssembly ==
    ret.called =>
        LET A == ret.envelope
            ic == ret.integrationCorrectionFactor
            th == [timeOszi |-> T - RAMP_INIT * PULSE_LENGTH,
                   phaseOffset |-> LASER_PHASE]
            Term(form, half) ==
                [form |-> form, prec |-> "float_X", envelope |-> A,
                 overSqrt2 |-> half, theta |-> th, ic |-> ic]
            zero == [form |-> "zero", prec |-> "float_X"]
        IN  /\ ret.elong[2] = zero
            /\ Polarisation = LINEAR_X =>
                  /\ ret.elong[1] = Term("sin+cos*ic", FALSE)
                  /\ ret.elong[3] = zero
            /\ Polarisation = LINEAR_Z =>
                  /\ ret.elong[1] = zero
                  /\ ret.elong[3] = Term("sin+cos*ic", FALSE)
            /\ Polarisation = CIRCULAR =>
                  /\ ret.elong[1] = Term("sin+cos*ic", TRUE)
                  /\ ret.elong[3] = Term("cos-sin*ic", TRUE)

C3_Witness ==
    /\ ret.called
    /\ Polarisation = LINEAR_Z
    /\ ret.branch = "downramp"
    /\ ret.elong[3].form = "sin+cos*ic"

\* C4: after every call of laserLongitudinal, whatever the step, regime,
\* polarisation and previous value of the caller's phase variable, the
\* phase output is 0.
C4_PhaseReset == ret.called => ret.phase = 0

C4_Witness ==
    /\ ret.called
    /\ arg.phaseIn > 0
    /\ ret.branch = "upramp"
    /\ phase = 0

\* C5: every call with the same currentStep yields the same field vector
\* and phase, whatever was evaluated in between and whatever the caller's
\* phase variable held.
C5_Deterministic ==
    /\ \A s \in Steps : \A a \in seen[s], b \in seen[s] :
          a.elong = b.elong /\ a.phase = b.phase
    /\ ret.called => \A a \in seen[currentStep] :
          a.elong = ret.elong /\ a.phase = ret.phase

C5_Witness ==
    /\ ret.called
    /\ arg.again
    /\ arg.phaseIn > 0
    /\ \E o \in Steps \ {currentStep} : seen[o] # {}

\* C6: laserTransversal returns its field-vector argument unchanged,
\* whatever the three scalar arguments are.
C6_TransversalIdentity ==
    trans.called =>
        /\ trans.out[1] = trans.in[1]
        /\ trans.out[2] = trans.in[2]
        /\ trans.out[3] = trans.in[3]

C6_Witness ==
    /\ trans.called
    /\ trans.args = <<MaxPos, MaxPos, MaxPos>>
    /\ trans.in[2].form # "zero"
    /\ trans.in[3].form # "zero"

\* C7: a species is eligible for MomentumComponent<d> iff its frame's
\* identifiers contain both position and momentum, for every axis d and
\* whatever other identifiers it carries.
C7_Eligibility ==
    eligible.evaluated =>
        (eligible.type <=> ("position" \in species /\ "momentum" \in species))

C7_Witness ==
    /\ eligible.evaluated
    /\ ~eligible.type
    /\ "momentum" \in species
    /\ "weighting" \in species
    /\ T_direction = 2

\* C8: evaluate returns p[d] / |p| when |p| > 0 and exactly 0 for the
\* momentum (0,0,0).
C8_MomentumRatio ==
    attribute.called =>
        LET p == attribute.momentum
        IN  IF p = <<0, 0, 0>>
            THEN attribute.value = <<0, 1>>
            ELSE /\ attribute.value[1] = p[T_direction + 1]
                 /\ attribute.value[2] = p[1] * p[1] + p[2] * p[2] + p[3] * p[3]
                 /\ attribute.value[2] > 0

C8_Witness ==
    /\ attribute.called
    /\ attribute.momentum = <<0, 0, 0>>
    /\ T_direction = 1

\* C9: getUnitDimension returns exactly 7 entries, all 0, for every axis.
C9_Dimensionless ==
    unitDimension # <<>> =>
        /\ Len(unitDimension) = 7
        /\ \A i \in 1..Len(unitDimension) : unitDimension[i] = 0

C9_Witness == Len(unitDimension) = 7 /\ T_direction = 2

\* C10: with DELTA_T > 0 and LASER_NOFOCUS_CONSTANT >= 0, a call for a later
\* (or the same) step never takes an earlier regime in the order
\* Upramp -> Plateau -> Downramp, and the regime taken is the only one of
\* the three whose time condition holds.
Rank(b) == IF b = "upramp" THEN 0 ELSE IF b = "plateau" THEN 1 ELSE 2

RegimesAt(t) ==
    {r \in {"upramp", "plateau", "downramp"} :
        \/ r = "upramp" /\ t < RAMP_INIT * PULSE_LENGTH
        \/ r = "plateau" /\ RAMP_INIT * PULSE_LENGTH <= t
                         /\ t <= RAMP_INIT * PULSE_LENGTH + 2 * LASER_NOFOCUS_CONSTANT
        \/ r = "downramp" /\ t > RAMP_INIT * PULSE_LENGTH + 2 * LASER_NOFOCUS_CONSTANT}

C10_RegimeOrder ==
    [][(DELTA_T > 0 /\ LASER_NOFOCUS_CONSTANT >= 0 /\ ret'.called) =>
          /\ RegimesAt(2 * (DELTA_T * currentStep')) = {ret'.branch}
          /\ (ret.called /\ currentStep' >= currentStep) =>
                Rank(ret'.branch) >= Rank(ret.branch)]_vars

C10_Witness ==
    /\ LASER_NOFOCUS_CONSTANT > 0
    /\ ret.called
    /\ currentStep = 2
    /\ ret.branch = "downramp"
    /\ seen[0] # {}
    /\ seen[1] # {}
    /\ RegimesAt(0) = {"upramp"}
    /\ RegimesAt(2 * DELTA_T) = {"plateau"}

====
